---- MODULE Spec2Model ----
(***************************************************************************)
(* GrobiSplitter (src/splitter.py): split a modular yum repository into    *)
(* one directory per module stream plus a "non_modular" directory.         *)
(*                                                                         *)
(* The model follows main(): setup_target, parse_repository,               *)
(* validate_filenames, perform_split (one step per os.mkdir and per        *)
(* _perform_action call) and create_repos (one step per createrepo_c       *)
(* run).  Paths are sequences of path components, package identities and   *)
(* module artifacts are the NEVRA strings the code formats and compares.   *)
(***************************************************************************)
EXTENDS Integers, Sequences, FiniteSets, TLC

----------------------------------------------------------------------------
(* Bounds of the model. *)

\* Largest number of packages in the hawkey sack.
MaxPkgs == 2

\* Largest number of module streams in the module index (SpecResolve).
MaxStreams == 2

----------------------------------------------------------------------------
(* The input universe. *)

\* (name, epoch, version, release, arch) of the packages a sack may hold.
Identities ==
    { [name |-> "a", epoch |-> 0, version |-> "1", release |-> "1", arch |-> "x"],
      [name |-> "a", epoch |-> 1, version |-> "1", release |-> "1", arch |-> "x"],
      [name |-> "b", epoch |-> 0, version |-> "1", release |-> "1", arch |-> "x"] }

\* pkg.location values: repository-relative paths, as component sequences.
\* Two of them share the file name f.rpm in different directories.
Locations == { <<"d1", "f.rpm">>, <<"d2", "f.rpm">>, <<"g.rpm">> }

\* A package of the sack: an identity and its location.
Packages ==
    { [name |-> i.name, epoch |-> i.epoch, version |-> i.version,
       release |-> i.release, arch |-> i.arch, location |-> l] :
      i \in Identities, l \in Locations }

\* The strings stream.get_rpm_artifacts() may return; the last one names a
\* build for another architecture, which no sack of the universe holds.
Artifacts == { "a-0:1-1.x", "a-1:1-1.x", "b-0:1-1.x", "a-0:1-1.y" }

\* The keys stream.get_NSVCA() may return.
StreamKeys == { "m:s1:1:c:x", "m:s2:1:c:x", "n:s1:1:c:x" }

Actions == { "hardlink", "symlink", "copy" }

\* --target and the state of the path it names when the run starts:
\* not given, or naming nothing, an empty directory, a directory with an
\* entry in it, or a file.  os.path.abspath (line 216) renames the path and
\* leaves what it names unchanged, so the path itself is not modelled.
Targets == { "none", "absent", "empty", "nonempty", "file" }

\* repo_info: has no 'modules' key, has a modules document that parses, or
\* has one that update_from_string rejects.
ModuleDocs == { "none", "ok", "corrupt" }

\* Exit status of a createrepo_c run: subprocess.run does not check it.
\* The tool is taken to be installed, so that every run starts.
ExitCodes == { 0, 1 }

NoRepos == [ k \in {} |-> <<>> ]

----------------------------------------------------------------------------
VARIABLES
    args,        \* parsed command line (action, target, skip_missing, create_repos)
    sack,        \* the packages hawkey.Query(package_sack) yields
    md,          \* the state of the modules document
    streams,     \* module index: NSVCA -> set of artifact strings
    srcFiles,    \* locations that exist as files under the repository
    pc,          \* where main() is
    err,         \* the exception that ended the run, or "none"
    loaded,      \* _get_repoinfo has run
    pkgs_list,   \* the dictionary _get_filelist returned
    repos,       \* the partition parse_repository returned
    order,       \* iteration order of the keys of repos
    validated,   \* validate_filenames has returned
    isok,        \* what validate_filenames returned
    printed,     \* what the program has printed
    outRoot,     \* the target path: "absent", "file" or "dir"
    junk,        \* the target directory holds an entry from before the run
    outDirs,     \* bucket directories created under the target
    outFiles,    \* entries created in bucket directories
    bi,          \* perform_split: index in order of the current bucket
    pi,          \* perform_split: 0 before os.mkdir, else index of the next package
    ri,          \* create_repos: index in order of the next bucket
    invocations, \* createrepo_c runs so far: bucket and exit status
    repodata     \* bucket directories holding metadata createrepo_c wrote

vars == << args, sack, md, streams, srcFiles, pc, err, loaded, pkgs_list, repos, order,
           validated, isok, printed, outRoot, junk, outDirs, outFiles, bi, pi,
           ri, invocations, repodata >>

inputs == << args, sack, md, streams, srcFiles >>

----------------------------------------------------------------------------
(* Helpers. *)

Range(s) == { s[i] : i \in DOMAIN s }

\* Iteration of a Python set or dict whose order the program does not fix:
\* some order, each element once.
RECURSIVE SetToSeq(_)
SetToSeq(S) ==
    IF S = {} THEN <<>>
    ELSE LET x == CHOOSE y \in S : TRUE
         IN  <<x>> \o SetToSeq(S \ {x})

\* os.path.split(pkg)[1]: the last component.
Basename(path) == path[Len(path)]

----------------------------------------------------------------------------
(* The partitioning engine. *)

\* _get_filelist's key: "%s-%s:%s-%s.%s" % (name, epoch, version, release, arch).
Nevr(pkg) ==
    pkg.name \o "-" \o ToString(pkg.epoch) \o ":" \o pkg.version \o "-"
             \o pkg.release \o "." \o pkg.arch

\* _get_filelist: pkg_list[nevr] = pkg.location for each package of the
\* sack in the query's order.  When two packages format to the same key the
\* later one overwrites the earlier; the order is the sack's, so the result
\* is any dictionary that keeps, per key, the location of one package
\* having that key.  The set of the dictionaries the loop can return.
GetFilelist(package_sack) ==
    LET keys == { Nevr(p) : p \in package_sack }
    IN  { f \in [keys -> Locations] :
            \A n \in keys :
                \E p \in package_sack : Nevr(p) = n /\ p.location = f[n] }

\* Lines 106-111: the locations of the artifacts found in pkgs_list, in
\* the artifacts' order; an artifact that is no key is passed over.
RECURSIVE Templ(_, _)
Templ(artifacts, list) ==
    IF artifacts = <<>> THEN <<>>
    ELSE LET pkg == Head(artifacts)
         IN  IF pkg \in DOMAIN list
             THEN <<list[pkg]>> \o Templ(Tail(artifacts), list)
             ELSE Templ(Tail(artifacts), list)

\* Mutant: the inner loop walks the whole file list, not the stream's artifacts.
ParseRepositoryModularAnyKey(list, idx) ==
    [ nsvca \in DOMAIN idx |-> Templ(SetToSeq(DOMAIN list), list) ]

\* _parse_repository_modular: cts[stream.get_NSVCA()] = templ, per stream.
ParseRepositoryModular(list, idx) ==
    [ nsvca \in DOMAIN idx |-> Templ(SetToSeq(idx[nsvca]), list) ]

\* _get_modular_pkgset: every location of every bucket, each once.
GetModularPkgset(mod) ==
    UNION { Range(mod[modname]) : modname \in DOMAIN mod }

\* Mutant: the "continue" of line 82 is lost, every location is added.
ParseRepositoryNonModularAll(package_sack, modpkgset) ==
    { pkg.location : pkg \in package_sack }

\* _parse_repository_non_modular: the locations of the sack's packages
\* that are not in modpkgset.
ParseRepositoryNonModular(package_sack, modpkgset) ==
    { pkg.location : pkg \in { q \in package_sack : q.location \notin modpkgset } }

\* parse_repository, lines 244-250: mod['non_modular'] = non_modular.
ParseRepositoryResult(list, package_sack, idx) ==
    LET mod         == ParseRepositoryModular(list, idx)
        modpkgset   == GetModularPkgset(mod)
        non_modular == ParseRepositoryNonModular(package_sack, modpkgset)
    IN  [ modname \in (DOMAIN mod) \cup {"non_modular"} |->
            IF modname = "non_modular" THEN SetToSeq(non_modular)
            ELSE mod[modname] ]

\* The order "for modname in repos" visits the keys in: the streams' keys
\* as inserted, then "non_modular".
KeyOrder(mod) ==
    SetToSeq((DOMAIN mod) \ {"non_modular"}) \o <<"non_modular">>

----------------------------------------------------------------------------
(* main(), step by step. *)

Raise(e) == pc' = "raised" /\ err' = e

\* Lines 261-267 after the partition is known and validation is done or
\* skipped: perform_split when --target was given, else the run is over.
AfterValidation == IF args.target # "none" THEN "perform_split" ELSE "done"

\* Mutant: the listdir test of line 220 is lost.
TargetErrorNoListdir ==
    IF outRoot # "dir" THEN "ValueError: Target must be a directory" ELSE "none"

\* Lines 218-221, for a target that exists: the error setup_target raises.
TargetError ==
    IF outRoot # "dir" THEN "ValueError: Target must be a directory"
    ELSE IF junk \/ outDirs # {} THEN "ValueError: Target must be empty"
    ELSE "none"

\* setup_target (line 257).
SetupTarget ==
    /\ pc = "setup_target"
    /\ IF args.target = "none"
       THEN /\ pc' = "parse_repository"
            /\ UNCHANGED << err, outRoot >>
       ELSE IF outRoot # "absent"
            THEN IF TargetError # "none"
                 THEN Raise(TargetError) /\ UNCHANGED outRoot
                 ELSE pc' = "parse_repository" /\ UNCHANGED << err, outRoot >>
            ELSE /\ outRoot' = "dir"
                 /\ pc' = "parse_repository"
                 /\ UNCHANGED err
    /\ UNCHANGED << inputs, loaded, pkgs_list, repos, order, validated, isok,
                    printed, junk, outDirs, outFiles, bi, pi, ri, invocations,
                    repodata >>

\* Mutant: the test of line 237 is lost.
HasModulesAlways == TRUE

\* Line 237: 'modules' in repo_info.
HasModules == md # "none"

\* Mutant: main never calls validate_filenames.
AfterParseNoGate == AfterValidation

\* Line 261: validate unless --skip-missing.
AfterParse ==
    IF ~args.skip_missing THEN "validate_filenames" ELSE AfterValidation

\* parse_repository (line 259), and the branch of line 261 that follows it.
ParseRepository ==
    /\ pc = "parse_repository"
    /\ loaded' = TRUE
    /\ IF ~HasModules
       THEN /\ printed' = printed \o << [kind |-> "no_modules"] >>
            /\ pc' = "exit0"
            /\ UNCHANGED << err, pkgs_list, repos, order >>
       ELSE IF md = "corrupt"
            THEN /\ Raise("Exception: YAML FAILURE")
                 /\ UNCHANGED << printed, pkgs_list, repos, order >>
            ELSE \E list \in GetFilelist(sack) :
                    /\ pkgs_list' = list
                    /\ repos' = ParseRepositoryResult(list, sack, streams)
                    /\ order' = KeyOrder(repos')
                    /\ pc' = AfterParse
                    /\ UNCHANGED << err, printed >>
    /\ UNCHANGED << inputs, validated, isok, outRoot, junk, outDirs, outFiles,
                    bi, pi, ri, invocations, repodata >>

----------------------------------------------------------------------------
(* validate_filenames. *)

\* The (modname, pkg) pairs in the order of the two loops of lines 140-141.
RECURSIVE AllPairs(_, _)
AllPairs(keys, repoinfo) ==
    IF keys = <<>> THEN <<>>
    ELSE LET modname == Head(keys)
             pkgs    == repoinfo[modname]
         IN  [ i \in 1..Len(pkgs) |-> [mod |-> modname, pkg |-> pkgs[i]] ]
                 \o AllPairs(Tail(keys), repoinfo)

\* Mutant: the loop stops at the first missing file.
RECURSIVE ValidateWalkStop(_, _)
ValidateWalkStop(pairs, acc) ==
    IF pairs = <<>> THEN acc
    ELSE LET p == Head(pairs)
         IN  IF p.pkg \notin srcFiles
             THEN [isok |-> FALSE,
                   printed |-> Append(acc.printed,
                       [kind |-> "missing", pkg |-> p.pkg, mod |-> p.mod])]
             ELSE ValidateWalkStop(Tail(pairs), acc)

\* The loop body, lines 142-144, over the pairs still to visit: acc holds
\* isok and the lines printed so far.
RECURSIVE ValidateWalk(_, _)
ValidateWalk(pairs, acc) ==
    IF pairs = <<>> THEN acc
    ELSE LET p == Head(pairs)
         IN  IF p.pkg \notin srcFiles
             THEN ValidateWalk(Tail(pairs),
                     [isok |-> FALSE,
                      printed |-> Append(acc.printed,
                          [kind |-> "missing", pkg |-> p.pkg, mod |-> p.mod])])
             ELSE ValidateWalk(Tail(pairs), acc)

\* validate_filenames(directory, repoinfo): isok and what it printed.
ValidateFilenames(keys, repoinfo) ==
    ValidateWalk(AllPairs(keys, repoinfo), [isok |-> TRUE, printed |-> <<>>])

\* Lines 261-263.
Validate ==
    /\ pc = "validate_filenames"
    /\ LET r == ValidateFilenames(order, repos)
       IN  /\ validated' = TRUE
           /\ isok' = r.isok
           /\ printed' = printed \o r.printed
           /\ IF ~r.isok
              THEN Raise("ValueError: Package files were missing!")
              ELSE pc' = AfterValidation /\ UNCHANGED err
    /\ UNCHANGED << inputs, loaded, pkgs_list, repos, order, outRoot, junk,
                    outDirs, outFiles, bi, pi, ri, invocations, repodata >>

----------------------------------------------------------------------------
(* perform_split and _perform_action. *)

Entry(dst, src, action) ==
    [dir |-> dst.dir, name |-> dst.name, src |-> src, how |-> action]

At(dst) == { e \in outFiles : e.dir = dst.dir /\ e.name = dst.name }

\* _perform_action(src, dst, action): the entries of the bucket directories
\* after the call and the exception it raised, if any.
\*   copy:     shutil.copy replaces an existing dst; FileNotFoundError is
\*             caught and passed over.
\*   hardlink: os.link fails when src is missing or dst exists.
\*   symlink:  os.symlink fails when dst exists; it does not look at src,
\*             so a missing src leaves a dangling link.
PerformAction(src, dst, action) ==
    CASE action = "copy" ->
            IF src \notin srcFiles
            THEN [files |-> outFiles, err |-> "none"]
            ELSE [files |-> (outFiles \ At(dst)) \cup {Entry(dst, src, action)},
                  err |-> "none"]
      [] action = "hardlink" ->
            IF src \notin srcFiles
            THEN [files |-> outFiles, err |-> "FileNotFoundError"]
            ELSE IF At(dst) # {}
                 THEN [files |-> outFiles, err |-> "FileExistsError"]
                 ELSE [files |-> outFiles \cup {Entry(dst, src, action)},
                       err |-> "none"]
      [] action = "symlink" ->
            IF At(dst) # {}
            THEN [files |-> outFiles, err |-> "FileExistsError"]
            ELSE [files |-> outFiles \cup {Entry(dst, src, action)},
                  err |-> "none"]

\* Lines 264-267 once perform_split has returned.
AfterSplit == IF args.create_repos THEN "create_repos" ELSE "done"

\* The loops of perform_split move on to the next bucket, or return.
NextBucket ==
    /\ bi' = bi + 1
    /\ pi' = 0
    /\ pc' = IF bi = Len(order) THEN AfterSplit ELSE "perform_split"

\* Lines 169-170: os.mkdir(targetdir).
SplitMkdir ==
    /\ pc = "perform_split"
    /\ bi <= Len(order)
    /\ pi = 0
    /\ LET modname == order[bi]
       IN  IF modname \in outDirs
           THEN Raise("FileExistsError") /\ UNCHANGED << outDirs, bi, pi >>
           ELSE /\ outDirs' = outDirs \cup {modname}
                /\ UNCHANGED err
                /\ IF Len(repos[modname]) = 0
                   THEN NextBucket
                   ELSE pi' = 1 /\ UNCHANGED << bi, pc >>
    /\ UNCHANGED << inputs, loaded, pkgs_list, repos, order, validated, isok,
                    printed, outRoot, junk, outFiles, ri, invocations, repodata >>

\* Lines 172-177: one _perform_action call.
SplitPerformAction ==
    /\ pc = "perform_split"
    /\ bi <= Len(order)
    /\ pi >= 1
    /\ LET modname == order[bi]
           pkg     == repos[modname][pi]
           r       == PerformAction(pkg, [dir |-> modname, name |-> Basename(pkg)],
                                    args.action)
       IN  IF r.err # "none"
           THEN Raise(r.err) /\ UNCHANGED << outFiles, bi, pi >>
           ELSE /\ outFiles' = r.files
                /\ UNCHANGED err
                /\ IF pi = Len(repos[modname])
                   THEN NextBucket
                   ELSE pi' = pi + 1 /\ UNCHANGED << bi, pc >>
    /\ UNCHANGED << inputs, loaded, pkgs_list, repos, order, validated, isok,
                    printed, outRoot, junk, outDirs, ri, invocations, repodata >>

----------------------------------------------------------------------------
(* create_repos. *)

\* Mutant: subprocess.run(..., check=True), a failed run raises.
AfterRunChecked(rc, last) ==
    IF rc # 0
    THEN [pc |-> "raised", err |-> "CalledProcessError", printed |-> <<>>]
    ELSE [pc |-> IF last THEN "done" ELSE "create_repos", err |-> "none",
          printed |-> <<>>]

\* What follows a createrepo_c run that ended with status rc:
\* subprocess.run is called without check=True, so the status is dropped
\* and the loop goes on; after the last bucket the run is over.
AfterRun(rc, last) ==
    [pc |-> IF last THEN "done" ELSE "create_repos", err |-> "none",
     printed |-> <<>>]

\* Lines 186-189: one subprocess.run(['createrepo_c', dir, '--no-database']).
CreateRepo ==
    /\ pc = "create_repos"
    /\ ri <= Len(order)
    /\ \E rc \in ExitCodes :
          LET modname == order[ri]
              after   == AfterRun(rc, ri = Len(order))
          IN  /\ invocations' = Append(invocations, [bucket |-> modname, rc |-> rc])
              /\ repodata' = IF rc = 0 THEN repodata \cup {modname} ELSE repodata
              /\ ri' = ri + 1
              /\ pc' = after.pc
              /\ err' = after.err
              /\ printed' = printed \o after.printed
    /\ UNCHANGED << inputs, loaded, pkgs_list, repos, order, validated, isok,
                    outRoot, junk, outDirs, outFiles, bi, pi >>

----------------------------------------------------------------------------
(* Initial states. *)

NoStreams == [ k \in {} |-> {} ]

\* Sacks of at most MaxPkgs packages.
Sacks == { s \in SUBSET Packages : Cardinality(s) <= MaxPkgs }

\* Module indexes of at most MaxStreams streams.
Indexes ==
    UNION { [ks -> SUBSET Artifacts] :
            ks \in { k \in SUBSET StreamKeys : Cardinality(k) <= MaxStreams } }

InitWith(a, s, m, idx, files) ==
    /\ args = a
    /\ sack = s
    /\ md = m
    /\ streams = idx
    /\ srcFiles = files
    /\ pc = "setup_target"
    /\ err = "none"
    /\ loaded = FALSE
    /\ pkgs_list = NoRepos
    /\ repos = NoRepos
    /\ order = <<>>
    /\ validated = FALSE
    /\ isok = TRUE
    /\ printed = <<>>
    /\ outRoot = CASE a.target \in {"none", "absent"} -> "absent"
                   [] a.target = "file" -> "file"
                   [] OTHER -> "dir"
    /\ junk = (a.target = "nonempty")
    /\ outDirs = {}
    /\ outFiles = {}
    /\ bi = 1
    /\ pi = 0
    /\ ri = 1
    /\ invocations = <<>>
    /\ repodata = {}

\* The resolver alone: every sack and every module index of the universe,
\* no target, validation skipped.
InitResolve ==
    \E s \in Sacks, idx \in Indexes :
        InitWith([action |-> "hardlink", target |-> "none",
                  skip_missing |-> TRUE, create_repos |-> FALSE],
                 s, "ok", idx, {})

NextResolve == SetupTarget \/ ParseRepository

SpecResolve == InitResolve /\ [][NextResolve]_vars

\* Whole runs of main(): every command line, every sack, a module index of
\* at most one stream (none when there is no modules document to read), and
\* any subset of the packages' files present on disk.
ArgsSet ==
    [action : Actions, target : Targets, skip_missing : BOOLEAN,
     create_repos : BOOLEAN]

MainIndexes ==
    {NoStreams} \cup [ {"m:s1:1:c:x"} -> SUBSET Artifacts ]

Init ==
    \E a \in ArgsSet, s \in Sacks, m \in ModuleDocs :
        \E idx \in (IF m = "ok" THEN MainIndexes ELSE {NoStreams}),
           files \in SUBSET { p.location : p \in s } :
            InitWith(a, s, m, idx, files)

Next ==
    \/ SetupTarget
    \/ ParseRepository
    \/ Validate
    \/ SplitMkdir
    \/ SplitPerformAction
    \/ CreateRepo

Spec == Init /\ [][Next]_vars

----------------------------------------------------------------------------
(* Properties of the partition. *)

\* parse_repository has returned a partition.
Parsed == "non_modular" \in DOMAIN repos

NonModular == Range(repos["non_modular"])

InModule(p) == \E k \in DOMAIN streams : p \in Range(repos[k])

\* A stream declares the identity of a package that the index files under p.
DeclaredAt(p) ==
    \E k \in DOMAIN streams, q \in sack :
        /\ Nevr(q) \in streams[k]
        /\ pkgs_list[Nevr(q)] = p

\* C1: the partition is total with a disjoint module/non-modular boundary.
\* Every location of a package is in "non_modular" or in at least one
\* stream bucket and never in both, and a path of the package index is in
\* "non_modular" exactly when no stream declares the identity of an indexed
\* package with that path.
C1_PartitionTotal ==
    Parsed =>
        /\ DOMAIN repos = (DOMAIN streams) \cup {"non_modular"}
        /\ \A q \in sack :
              (q.location \in NonModular) # InModule(q.location)
        /\ \A p \in Range(pkgs_list) :
              (p \in NonModular) <=> ~DeclaredAt(p)

\* C1 witness: two stream buckets share a path, and the sack holds one
\* declared identity at two locations: the index keeps one of them, which
\* is in the streams' buckets, and the other location is non-modular.
C1_Witness ==
    /\ Parsed
    /\ \E k1, k2 \in DOMAIN streams :
          k1 # k2 /\ Range(repos[k1]) \cap Range(repos[k2]) # {}
    /\ \E q1, q2 \in sack :
          /\ Nevr(q1) = Nevr(q2)
          /\ InModule(q1.location)
          /\ q2.location \in NonModular
          /\ q2.location \notin Range(pkgs_list)

\* C2: a stream's bucket holds exactly the index's paths of the identities
\* the stream declares and the index has, one list element for each; a
\* declared identity the index lacks is passed over without an error, and
\* the buckets' keys are the streams' NSVCAs.
C2_BucketExact ==
    Parsed =>
        /\ err = "none"
        /\ \A k \in DOMAIN streams :
              /\ k \in DOMAIN repos
              /\ Range(repos[k]) =
                    { q.location : q \in { r \in sack :
                         /\ Nevr(r) \in streams[k]
                         /\ pkgs_list[Nevr(r)] = r.location } }
              /\ Len(repos[k]) =
                    Cardinality({ a \in streams[k] : \E q \in sack : Nevr(q) = a })

\* C2 witness: a stream that declares an identity the index has and one it
\* lacks, in a sack that also holds a package the stream does not declare.
C2_Witness ==
    /\ Parsed
    /\ \E k \in DOMAIN streams :
          /\ \E a \in streams[k] : a \notin DOMAIN pkgs_list
          /\ \E a \in streams[k] : a \in DOMAIN pkgs_list
          /\ \E q \in sack : Nevr(q) \notin streams[k]
          /\ Len(repos[k]) = 1

----------------------------------------------------------------------------
(* Properties of validation and of the order of main(). *)

\* The visits of validate_filenames whose file is missing: bucket and
\* position in the bucket's list.
MissingPairs ==
    UNION { { <<k, i>> : i \in { j \in 1..Len(repos[k]) : repos[k][j] \notin srcFiles } } :
            k \in DOMAIN repos }

MissingLines == { i \in 1..Len(printed) : printed[i].kind = "missing" }

\* What the run has done to the disk: nothing but, possibly, the creation
\* of the target directory.
NoBucketOutput ==
    outDirs = {} /\ outFiles = {} /\ repodata = {} /\ invocations = <<>>

TargetAsFound ==
    /\ junk = (args.target = "nonempty")
    /\ outRoot = CASE args.target \in {"none", "absent"} -> "absent"
                   [] args.target = "file" -> "file"
                   [] OTHER -> "dir"

\* C3: validate_filenames visits every (bucket, path) pair and does not
\* stop at the first failure: with k visited pairs whose file is missing it
\* prints exactly k lines, one for each pair, and it returns true exactly
\* when k = 0.
C3_ValidatorComplete ==
    validated =>
        /\ Cardinality(MissingLines) = Cardinality(MissingPairs)
        /\ \A m \in MissingPairs :
              \E i \in MissingLines :
                  printed[i].mod = m[1] /\ printed[i].pkg = repos[m[1]][m[2]]
        /\ isok <=> (MissingPairs = {})
        /\ ~isok <=> (err = "ValueError: Package files were missing!")

\* C3 witness: validation has reported two missing files, one in a stream
\* bucket and one in "non_modular".
C3_Witness ==
    /\ validated
    /\ Cardinality(MissingPairs) = 2
    /\ \E m1, m2 \in MissingPairs : m1[1] # "non_modular" /\ m2[1] = "non_modular"
    /\ Len(printed) = 2

C6_ConfigErrorFirst ==
    args.target \in {"file", "nonempty"} =>
        /\ pc \in {"setup_target", "raised"}
        /\ pc = "raised" =>
              err = (IF args.target = "file"
                     THEN "ValueError: Target must be a directory"
                     ELSE "ValueError: Target must be empty")
        /\ ~loaded /\ ~Parsed /\ ~validated
        /\ printed = <<>>
        /\ NoBucketOutput /\ TargetAsFound

\* C6 witness: the run has stopped on a target directory that is not empty.
C6_Witness ==
    /\ args.target = "nonempty"
    /\ pc = "raised"
    /\ err = "ValueError: Target must be empty"

----------------------------------------------------------------------------
(* Properties of materialization and regeneration. *)

\* The _perform_action calls that have returned: bucket index and position.
Processed ==
    UNION { { <<b, i>> : i \in { j \in 1..Len(repos[order[b]]) :
                                    b < bi \/ (b = bi /\ j < pi) } } :
            b \in 1..Len(order) }

\* perform_split has returned.
SplitDone ==
    /\ Parsed
    /\ args.target # "none"
    /\ bi = Len(order) + 1
    /\ pc \in {"create_repos", "done"}

EntriesOf(k) == { e \in outFiles : e.dir = k }

\* C7 as stated: with hardlink or symlink, a _perform_action call whose
\* source is missing raises, so no such call ever returns, and no entry
\* is created for a missing source.
C7_LinkMissingIsHardFailure ==
    args.action \in {"hardlink", "symlink"} =>
        /\ \A m \in Processed : repos[order[m[1]]][m[2]] \in srcFiles
        /\ \A e \in outFiles : e.src \in srcFiles

\* The hardlink half of C7, which the code keeps.
HardlinkMissingIsHardFailure ==
    args.action = "hardlink" =>
        /\ \A m \in Processed : repos[order[m[1]]][m[2]] \in srcFiles
        /\ \A e \in outFiles : e.src \in srcFiles

\* C8 as stated: with --skip-missing no missing source file raises,
\* whatever the action; no entry is made for a missing file, and once
\* perform_split has returned every bucket has its directory and every
\* package whose source exists has its entry.
C8_SkipMissingTolerant ==
    args.skip_missing =>
        /\ err # "FileNotFoundError"
        /\ \A e \in outFiles : e.src \in srcFiles
        /\ SplitDone =>
              /\ outDirs = DOMAIN repos
              /\ \A k \in DOMAIN repos :
                    \A path \in Range(repos[k]) \cap srcFiles :
                        \E e \in EntriesOf(k) : e.name = Basename(path)

C10_OneEntryPerPath ==
    (SplitDone /\ \A k \in DOMAIN repos : Range(repos[k]) \subseteq srcFiles) =>
        /\ outDirs = DOMAIN repos
        /\ \A k \in DOMAIN repos :
              Cardinality(EntriesOf(k)) = Cardinality(Range(repos[k]))

====
